---- MODULE Spec2Model ----
(***************************************************************************)
(* A model of the bounded top/bottom-N price change store:                 *)
(*   src/src/record_pool.rs  RecordPool (fits, insert)                     *)
(*   src/src/data_store.rs   DataStore (insert, code_for_description,      *)
(*                           cleanup_descriptions)                         *)
(* Decimal differences are modelled as integers (exact arithmetic, total   *)
(* order), description strings as strings, codes and counts as naturals.   *)
(***************************************************************************)
EXTENDS Integers, FiniteSets, Sequences, TLC

\* ------------------------------------------------------------------ bounds
\* Largest pool capacity (the `size` given to DataStore::new / RecordPool::new).
MaxBounds == 2
\* Start and end prices of a record range over 0..MaxPrice.
MaxPrice == 2
\* A use count is not incremented beyond MaxUse.
MaxUse == 3

Descriptions == {"a", "b"}
\* next_code is not advanced beyond MaxCode: every description can be interned
\* once, and one of them again after its code was released.
MaxCode == Cardinality(Descriptions) + 1
\* The calls made on one iterator: enough to exhaust a full pool and to call
\* once more after the end.
MaxCalls == MaxBounds + 2
Prices == 0 .. MaxPrice
Differences == (0 - MaxPrice) .. MaxPrice
Capacities == 1 .. MaxBounds
\* Codes given to a pool used on its own.
PoolCodes == {0, 1}

\* Option::None, and the absence of a recorded call.
None == <<>>

\* The value of a variable that holds no pool, store, registry or iterator.
Nothing == [made |-> FALSE]

\* No DataStore::insert call was made yet.
NoSteps == [path |-> "none yet", description |-> "", code |-> 0, fresh |-> FALSE,
            named |-> {}, counted |-> <<>>,
            evicted |-> None, transfer |-> FALSE, second |-> None]

\* ------------------------------------------------------------------ state
VARIABLES
    top,            \* DataStore.top: RecordPool of type Most
    bottom,         \* DataStore.bottom: RecordPool of type Least
    descriptions,   \* DataStore.descriptions: BiMap<String, usize>, a set of <<description, code>>
    code_use,       \* DataStore.code_use: HashMap<usize, usize>
    next_code,      \* DataStore.next_code
    offered,        \* history: every difference a DataStore::insert call computed
    call,           \* history: the arguments of the latest DataStore::insert call
    pool,           \* a RecordPool used on its own
    pool_offered,   \* history: every difference given to pool.insert
    pool_repeated,  \* history: some difference was given to pool.insert twice
    pool_call,      \* history: the latest call on pool, its arguments, result and the pool before it
    new_call,       \* history: the constructor call made, its arguments and its Result
    steps,          \* history: what the latest DataStore::insert call did, step by step
    assigned,       \* history: the <<description, code>> pairs code_for_description returned
    iter,           \* a RecordPoolIterator borrowed from pool
    iter_log        \* history: the next / next_back calls made on iter and what they returned

vars == <<top, bottom, descriptions, code_use, next_code, offered, call,
          pool, pool_offered, pool_repeated, pool_call, new_call,
          steps, assigned, iter, iter_log>>
store_vars == <<top, bottom, descriptions, code_use, next_code, offered, call,
                steps, assigned>>
iter_vars == <<iter, iter_log>>
pool_vars == <<pool, pool_offered, pool_repeated, pool_call, iter_vars>>

\* ------------------------------------------------------------------ maps
\* HashMap::new()
EmptyMap == [k \in {} |-> 0]

\* HashMap::insert(k, v): add or overwrite.
MapInsert(m, k, v) == [x \in (DOMAIN m) \cup {k} |-> IF x = k THEN v ELSE m[x]]

\* HashMap::remove(k)
MapRemove(m, k) == [x \in (DOMAIN m) \ {k} |-> m[x]]

\* keys.sort(); keys.first()
First(keys) == CHOOSE k \in keys : \A j \in keys : k <= j

\* keys.sort(); keys.last()
Last(keys) == CHOOSE k \in keys : \A j \in keys : j <= k

\* BiMap::insert(left, right): pairs sharing the left or the right value are overwritten.
BiMapInsert(bm, left, right) ==
    {p \in bm : p[1] # left /\ p[2] # right} \cup {<<left, right>>}

\* BiMap::remove_by_right(right)
BiMapRemoveByRight(bm, right) == {p \in bm : p[2] # right}

\* BiMap::get_by_left(left) is Some
HasLeft(bm, left) == \E p \in bm : p[1] = left

\* BiMap::get_by_left(left), when Some
GetByLeft(bm, left) == (CHOOSE p \in bm : p[1] = left)[2]

\* ------------------------------------------------------------------ RecordPool
\* Result::Ok(value)
Ok(value) == [ok |-> TRUE, value |-> value]

\* Result::Err(error)
Err(error) == [ok |-> FALSE, error |-> error]

\* A RecordPool::new without the test of line 47.
RecordPool_new_NoCheck(bounds, pool_type) ==
    Ok([records |-> EmptyMap, largest |-> 0, smallest |-> 0,
        bounds |-> bounds, pool_type |-> pool_type])

\* RecordPool::new(bounds, pool_type): a Result<RecordPool, String>
RecordPool_new(bounds, pool_type) ==
    IF bounds = 0 THEN Err("Bounds for RecordPool cannot be 0")
    ELSE Ok([records |-> EmptyMap, largest |-> 0, smallest |-> 0,
             bounds |-> bounds, pool_type |-> pool_type])

\* self.records.len()
records_len(p) == Cardinality(DOMAIN p.records)

\* A fits that forgets the range test of line 94.
fits_NoRange(p, difference) ==
    IF records_len(p) < p.bounds THEN TRUE
    ELSE IF p.pool_type = "Most" /\ difference > p.largest THEN TRUE
    ELSE IF p.pool_type = "Least" /\ difference < p.smallest THEN TRUE
    ELSE FALSE

\* RecordPool::fits
fits(p, difference) ==
    IF records_len(p) < p.bounds THEN TRUE
    ELSE IF p.pool_type = "Most" /\ difference > p.largest THEN TRUE
    ELSE IF p.pool_type = "Least" /\ difference < p.smallest THEN TRUE
    ELSE IF difference >= p.smallest /\ difference <= p.largest THEN TRUE
    ELSE FALSE

\* An insert that forgets the eviction of lines 132-169.
RecordPool_insert_NoEvict(p, difference, description_code) ==
    IF ~fits(p, difference) THEN [pool |-> p, result |-> None]
    ELSE IF difference \in DOMAIN p.records /\ p.records[difference] = description_code
    THEN [pool |-> p, result |-> None]
    ELSE [pool |-> [p EXCEPT !.records = MapInsert(@, difference, description_code)],
          result |-> None]

\* An insert that evicts the smallest difference whatever the pool type.
RecordPool_insert_EvictFirst(p, difference, description_code) ==
    IF ~fits(p, difference) THEN [pool |-> p, result |-> None]
    ELSE IF difference \in DOMAIN p.records /\ p.records[difference] = description_code
    THEN [pool |-> p, result |-> None]
    ELSE LET inserted == MapInsert(p.records, difference, description_code) IN
         IF Cardinality(DOMAIN inserted) > p.bounds
         THEN LET key == First(DOMAIN inserted)
                  value == inserted[key]
                  remaining == MapRemove(inserted, key)
              IN [pool |-> [p EXCEPT !.records = remaining,
                                     !.smallest = First(DOMAIN remaining),
                                     !.largest = Last(DOMAIN remaining)],
                  result |-> <<key, value>>]
         ELSE [pool |-> [p EXCEPT !.records = inserted], result |-> None]

\* RecordPool::insert: the pool afterwards and the returned Option<(Decimal, usize)>.
RecordPool_insert(p, difference, description_code) ==
    IF ~fits(p, difference) THEN [pool |-> p, result |-> None]
    ELSE IF difference \in DOMAIN p.records /\ p.records[difference] = description_code
    THEN [pool |-> p, result |-> None]
    ELSE LET inserted == MapInsert(p.records, difference, description_code) IN
         IF Cardinality(DOMAIN inserted) > p.bounds
         THEN LET key == IF p.pool_type = "Most" THEN First(DOMAIN inserted)
                                                 ELSE Last(DOMAIN inserted)
                  value == inserted[key]
                  remaining == MapRemove(inserted, key)
              IN [pool |-> [p EXCEPT !.records = remaining,
                                     !.smallest = First(DOMAIN remaining),
                                     !.largest = Last(DOMAIN remaining)],
                  result |-> <<key, value>>]
         ELSE [pool |-> [p EXCEPT !.records = inserted], result |-> None]

\* ------------------------------------------------------------------ RecordPoolIterator
\* keys.sort(): the keys of the map as a vector in ascending order.
RECURSIVE sort(_)
sort(keys) ==
    IF keys = {} THEN <<>>
    ELSE <<First(keys)>> \o sort(keys \ {First(keys)})

\* RecordPoolIterator::new: the sorted keys, the forward index and the reverse
\* index with its end-of-iteration sentinel. Indices count from 0 as in the
\* source; keys[i + 1] is the vector element at index i.
RecordPoolIterator_new(p) ==
    [keys |-> sort(DOMAIN p.records),
     index |-> 0,
     rindex |-> IF DOMAIN p.records = {} THEN <<0, TRUE>>
                ELSE <<records_len(p) - 1, FALSE>>]

\* RecordPool::iter
RecordPool_iter(p) == RecordPoolIterator_new(p)

\* Iterator::next on the iterator it of pool p: the iterator after the call and
\* the item returned.
Iterator_next(it, p) ==
    IF it.index < records_len(p)
    THEN LET key == it.keys[it.index + 1]
             value == p.records[key]
         IN [iter |-> [it EXCEPT !.index = it.index + 1], item |-> <<key, value>>]
    ELSE [iter |-> it, item |-> None]

\* next_back that never sets the end-of-iteration sentinel.
Iterator_next_back_NoSentinel(it, p) ==
    IF it.rindex[2] THEN [iter |-> it, item |-> None]
    ELSE LET key == it.keys[it.rindex[1] + 1]
             value == p.records[key]
         IN [iter |-> IF it.rindex[1] = 0 THEN it
                      ELSE [it EXCEPT !.rindex = <<it.rindex[1] - 1, FALSE>>],
             item |-> <<key, value>>]

\* DoubleEndedIterator::next_back
Iterator_next_back(it, p) ==
    IF it.rindex[2] THEN [iter |-> it, item |-> None]
    ELSE LET key == it.keys[it.rindex[1] + 1]
             value == p.records[key]
         IN [iter |-> IF it.rindex[1] = 0
                      THEN [it EXCEPT !.rindex = <<it.rindex[1], TRUE>>]
                      ELSE [it EXCEPT !.rindex = <<it.rindex[1] - 1, FALSE>>],
             item |-> <<key, value>>]

\* ------------------------------------------------------------------ DataStore
\* The DataStore as one value, threaded through the steps of DataStore::insert.
Store == [top |-> top, bottom |-> bottom, descriptions |-> descriptions,
          code_use |-> code_use, next_code |-> next_code]

\* DataStore::new(size): a Result<DataStore, Box<dyn Error>>; each `?` returns
\* the error of RecordPool::new.
DataStore_new(size) ==
    LET most == RecordPool_new(size, "Most") IN
    IF ~most.ok THEN most
    ELSE LET least == RecordPool_new(size, "Least") IN
         IF ~least.ok THEN least
         ELSE Ok([top |-> most.value, bottom |-> least.value,
                  descriptions |-> {}, code_use |-> EmptyMap, next_code |-> 0])

\* A code_for_description that does not count a further use of a known
\* description.
code_for_description_NoCount(ds, description) ==
    IF HasLeft(ds.descriptions, description)
    THEN [store |-> ds, code |-> GetByLeft(ds.descriptions, description)]
    ELSE LET new_code == ds.next_code IN
         [store |-> [ds EXCEPT !.next_code = @ + 1,
                               !.descriptions = BiMapInsert(@, description, new_code),
                               !.code_use = MapInsert(@, new_code, 1)],
          code |-> new_code]

\* A code_for_description that hands out next_code without advancing it.
code_for_description_NoIncrement(ds, description) ==
    IF HasLeft(ds.descriptions, description)
    THEN LET code == GetByLeft(ds.descriptions, description) IN
         [store |-> [ds EXCEPT !.code_use =
                        IF code \in DOMAIN @ THEN [@ EXCEPT ![code] = @ + 1] ELSE @],
          code |-> code]
    ELSE LET new_code == ds.next_code IN
         [store |-> [ds EXCEPT !.descriptions = BiMapInsert(@, description, new_code),
                               !.code_use = MapInsert(@, new_code, 1)],
          code |-> new_code]

\* DataStore::code_for_description: the store afterwards and the returned code.
code_for_description(ds, description) ==
    IF HasLeft(ds.descriptions, description)
    THEN LET code == GetByLeft(ds.descriptions, description) IN
         [store |-> [ds EXCEPT !.code_use =
                        IF code \in DOMAIN @ THEN [@ EXCEPT ![code] = @ + 1] ELSE @],
          code |-> code]
    ELSE LET new_code == ds.next_code IN
         [store |-> [ds EXCEPT !.next_code = @ + 1,
                               !.descriptions = BiMapInsert(@, description, new_code),
                               !.code_use = MapInsert(@, new_code, 1)],
          code |-> new_code]

\* A cleanup that forgets to remove the description of line 200.
cleanup_descriptions_KeepDescription(ds, code) ==
    IF code \in DOMAIN ds.code_use
    THEN IF ds.code_use[code] - 1 = 0
         THEN [ds EXCEPT !.code_use = MapRemove(@, code)]
         ELSE [ds EXCEPT !.code_use[code] = @ - 1]
    ELSE ds

\* A cleanup that removes the description on every release.
cleanup_descriptions_AlwaysRemove(ds, code) ==
    IF code \in DOMAIN ds.code_use
    THEN IF ds.code_use[code] - 1 = 0
         THEN [ds EXCEPT !.descriptions = BiMapRemoveByRight(@, code),
                         !.code_use = MapRemove(@, code)]
         ELSE [ds EXCEPT !.descriptions = BiMapRemoveByRight(@, code),
                         !.code_use[code] = @ - 1]
    ELSE ds

\* A cleanup that leaves a count above one as it is.
cleanup_descriptions_KeepCount(ds, code) ==
    IF code \in DOMAIN ds.code_use
    THEN IF ds.code_use[code] - 1 = 0
         THEN [ds EXCEPT !.descriptions = BiMapRemoveByRight(@, code),
                         !.code_use = MapRemove(@, code)]
         ELSE ds
    ELSE ds

\* DataStore::cleanup_descriptions
cleanup_descriptions(ds, code) ==
    IF code \in DOMAIN ds.code_use
    THEN IF ds.code_use[code] - 1 = 0
         THEN [ds EXCEPT !.descriptions = BiMapRemoveByRight(@, code),
                         !.code_use = MapRemove(@, code)]
         ELSE [ds EXCEPT !.code_use[code] = @ - 1]
    ELSE ds

\* A top branch that releases the evicted code even when the entry moves to
\* the bottom pool.
InsertTop_AlwaysRelease(ds, difference, code) ==
    LET ins == RecordPool_insert(ds.top, difference, code)
        ds1 == [ds EXCEPT !.top = ins.pool]
    IN IF ins.result = None THEN ds1
       ELSE LET replaced_diff == ins.result[1]
                replaced_code == ins.result[2]
            IN IF fits(ds1.bottom, replaced_diff)
               THEN cleanup_descriptions(
                        [ds1 EXCEPT !.bottom =
                            RecordPool_insert(@, replaced_diff, replaced_code).pool],
                        replaced_code)
               ELSE cleanup_descriptions(ds1, replaced_code)

\* DataStore::insert, lines 99-111: the top pool takes the difference; what it
\* evicts goes to the bottom pool when it fits there, else its code is released.
InsertTop(ds, difference, code) ==
    LET ins == RecordPool_insert(ds.top, difference, code)
        ds1 == [ds EXCEPT !.top = ins.pool]
    IN IF ins.result = None THEN ds1
       ELSE LET replaced_diff == ins.result[1]
                replaced_code == ins.result[2]
            IN IF fits(ds1.bottom, replaced_diff)
               THEN [ds1 EXCEPT !.bottom =
                        RecordPool_insert(@, replaced_diff, replaced_code).pool]
               ELSE cleanup_descriptions(ds1, replaced_code)

\* DataStore::insert, lines 114-128: the same with the pools exchanged.
InsertBottom(ds, difference, code) ==
    LET ins == RecordPool_insert(ds.bottom, difference, code)
        ds1 == [ds EXCEPT !.bottom = ins.pool]
    IN IF ins.result = None THEN ds1
       ELSE LET replaced_diff == ins.result[1]
                replaced_code == ins.result[2]
            IN IF fits(ds1.top, replaced_diff)
               THEN [ds1 EXCEPT !.top =
                        RecordPool_insert(@, replaced_diff, replaced_code).pool]
               ELSE cleanup_descriptions(ds1, replaced_code)

\* An insert that asks the bottom pool first.
DataStore_insert_BottomFirst(ds, description, start_price, new_price) ==
    LET difference == new_price - start_price IN
    IF fits(ds.bottom, difference)
    THEN LET c == code_for_description(ds, description) IN
         InsertBottom(c.store, difference, c.code)
    ELSE IF fits(ds.top, difference)
    THEN LET c == code_for_description(ds, description) IN
         InsertTop(c.store, difference, c.code)
    ELSE ds

\* An insert that interns the description before asking the pools.
DataStore_insert_InternFirst(ds, description, start_price, new_price) ==
    LET difference == new_price - start_price
        c == code_for_description(ds, description)
    IN IF fits(ds.top, difference) THEN InsertTop(c.store, difference, c.code)
       ELSE IF fits(ds.bottom, difference) THEN InsertBottom(c.store, difference, c.code)
       ELSE c.store

\* DataStore::insert on a record with the given description and prices.
DataStore_insert(ds, description, start_price, new_price) ==
    LET difference == new_price - start_price IN
    IF fits(ds.top, difference)
    THEN LET c == code_for_description(ds, description) IN
         InsertTop(c.store, difference, c.code)
    ELSE IF fits(ds.bottom, difference)
    THEN LET c == code_for_description(ds, description) IN
         InsertBottom(c.store, difference, c.code)
    ELSE ds

\* Option::Some(value)
Some(value) == <<value>>

\* DataStore::get_description_for_code: Some(description), or None when no
\* description has the code.
get_description_for_code(ds, code) ==
    IF \E p \in ds.descriptions : p[2] = code
    THEN Some((CHOOSE p \in ds.descriptions : p[2] = code)[1])
    ELSE None

\* What one DataStore::insert call does, branch by branch: the pool that takes
\* the difference (path), the code code_for_description returns and whether it
\* is a new one, the two registry maps right after that call, what the first
\* pool evicts, whether the opposite pool fits it (transfer) and what the
\* transfer insert evicts in turn.
InsertSteps(ds, description, start_price, new_price) ==
    LET difference == new_price - start_price
        path == IF fits(ds.top, difference) THEN "top"
                ELSE IF fits(ds.bottom, difference) THEN "bottom"
                ELSE "neither"
    IN IF path = "neither"
       THEN [path |-> path, description |-> description, code |-> 0, fresh |-> FALSE,
             named |-> ds.descriptions, counted |-> ds.code_use,
             evicted |-> None, transfer |-> FALSE, second |-> None]
       ELSE LET c == code_for_description(ds, description)
                first == IF path = "top" THEN c.store.top ELSE c.store.bottom
                opposite == IF path = "top" THEN c.store.bottom ELSE c.store.top
                evicted == RecordPool_insert(first, difference, c.code).result
                transfer == evicted # None /\ fits(opposite, evicted[1])
            IN [path |-> path, description |-> description, code |-> c.code,
                fresh |-> ~HasLeft(ds.descriptions, description),
                named |-> c.store.descriptions, counted |-> c.store.code_use,
                evicted |-> evicted, transfer |-> transfer,
                second |-> IF transfer
                           THEN RecordPool_insert(opposite, evicted[1], evicted[2]).result
                           ELSE None]

\* The call interns a description (either pool fits the difference).
Interns(ds, difference) == fits(ds.top, difference) \/ fits(ds.bottom, difference)

\* The model's bounds: next_code and the use counts stay within MaxCode and MaxUse.
WithinBounds(ds, description, difference) ==
    Interns(ds, difference) =>
        IF HasLeft(ds.descriptions, description)
        THEN LET code == GetByLeft(ds.descriptions, description) IN
             code \in DOMAIN ds.code_use => ds.code_use[code] < MaxUse
        ELSE ds.next_code < MaxCode

\* ------------------------------------------------------------------ actions
\* DataStore::new returned Ok: main goes on to insert (main.rs:52).
StoreMade == new_call.fn = "DataStore::new" /\ new_call.result.ok

\* RecordPool::new returned Ok (the `unwrap()` of record_pool.rs:280 passed).
PoolMade == new_call.fn = "RecordPool::new" /\ new_call.result.ok

\* The effect of one DataStore::insert call (the spec's `record`) on the store.
RecordStore(description, start_price, new_price) ==
    /\ StoreMade
    /\ WithinBounds(Store, description, new_price - start_price)
    /\ \E ds \in {DataStore_insert(Store, description, start_price, new_price)} :
          /\ top' = ds.top
          /\ bottom' = ds.bottom
          /\ descriptions' = ds.descriptions
          /\ code_use' = ds.code_use
          /\ next_code' = ds.next_code
    /\ UNCHANGED <<pool_vars, new_call>>

\* One DataStore::insert call.
Record(description, start_price, new_price) ==
    /\ RecordStore(description, start_price, new_price)
    /\ UNCHANGED <<offered, call, steps, assigned>>

\* One DataStore::insert call, with what it did kept in the history variables.
RecordSteps(description, start_price, new_price) ==
    /\ RecordStore(description, start_price, new_price)
    /\ \E st \in {InsertSteps(Store, description, start_price, new_price)} :
           /\ steps' = st
           /\ assigned' = IF st.path = "neither" THEN assigned
                          ELSE assigned \cup {<<description, st.code>>}
    /\ UNCHANGED <<offered, call>>

\* One DataStore::insert call, with its arguments kept in the history variables.
RecordTraced(description, start_price, new_price) ==
    /\ RecordStore(description, start_price, new_price)
    /\ offered' = offered \cup {new_price - start_price}
    /\ call' = <<description, start_price, new_price>>
    /\ UNCHANGED <<steps, assigned>>

\* pool.insert(difference, code) on the pool used on its own.
PoolInsert(difference, code) ==
    /\ PoolMade
    /\ iter = Nothing
    /\ \E ins \in {RecordPool_insert(pool, difference, code)} :
          /\ pool' = ins.pool
          /\ pool_call' = [op |-> "insert", difference |-> difference, code |-> code,
                           result |-> ins.result, before |-> pool]
    /\ pool_offered' = pool_offered \cup {difference}
    /\ pool_repeated' = (pool_repeated \/ difference \in pool_offered)
    /\ UNCHANGED <<store_vars, new_call, iter_vars>>

\* pool.fits(&difference) on the pool used on its own.
PoolFits(difference) ==
    /\ PoolMade
    /\ pool_call' = [op |-> "fits", difference |-> difference, code |-> 0,
                     result |-> fits(pool, difference), before |-> pool]
    /\ UNCHANGED <<pool, pool_offered, pool_repeated>>
    /\ UNCHANGED <<store_vars, new_call, iter_vars>>

\* RecordPool::insert on the stand-alone pool, keeping no history. The pool is
\* mutably borrowed, so no iterator of it is alive.
PoolInsertOnly(difference, code) ==
    /\ PoolMade
    /\ iter = Nothing
    /\ pool' = RecordPool_insert(pool, difference, code).pool
    /\ UNCHANGED <<pool_offered, pool_repeated, pool_call, iter_vars>>
    /\ UNCHANGED <<store_vars, new_call>>

\* pool.iter(): borrow the pool in a fresh iterator.
IterNew ==
    /\ PoolMade
    /\ iter = Nothing
    /\ iter' = RecordPool_iter(pool)
    /\ iter_log' = <<>>
    /\ UNCHANGED <<pool, pool_offered, pool_repeated, pool_call>>
    /\ UNCHANGED <<store_vars, new_call>>

\* iter.next()
IterNext ==
    /\ iter # Nothing
    /\ Len(iter_log) < MaxCalls
    /\ \E r \in {Iterator_next(iter, pool)} :
           /\ iter' = r.iter
           /\ iter_log' = Append(iter_log, [op |-> "next", item |-> r.item])
    /\ UNCHANGED <<pool, pool_offered, pool_repeated, pool_call>>
    /\ UNCHANGED <<store_vars, new_call>>

\* iter.next_back()
IterNextBack ==
    /\ iter # Nothing
    /\ Len(iter_log) < MaxCalls
    /\ \E r \in {Iterator_next_back(iter, pool)} :
           /\ iter' = r.iter
           /\ iter_log' = Append(iter_log, [op |-> "next_back", item |-> r.item])
    /\ UNCHANGED <<pool, pool_offered, pool_repeated, pool_call>>
    /\ UNCHANGED <<store_vars, new_call>>

\* ------------------------------------------------------------------ constructors
\* No constructor has been called.
NoNewCall == [fn |-> "none", size |-> 0, pool_type |-> "none", result |-> Err("none")]

\* The store variables hold the store `ds`, on which no call was made yet.
StoreIs(ds) ==
    /\ top = ds.top
    /\ bottom = ds.bottom
    /\ descriptions = ds.descriptions
    /\ code_use = ds.code_use
    /\ next_code = ds.next_code
    /\ offered = {}
    /\ call = None
    /\ steps = NoSteps
    /\ assigned = {}

\* There is no store.
NoStore == [top |-> Nothing, bottom |-> Nothing, descriptions |-> Nothing,
            code_use |-> Nothing, next_code |-> Nothing]

NoPoolCall == [op |-> "none", difference |-> 0, code |-> 0, result |-> None,
               before |-> Nothing]

\* The pool variables hold the pool `p`, on which no call was made yet.
PoolIs(p) ==
    /\ pool = p
    /\ pool_offered = {}
    /\ pool_repeated = FALSE
    /\ pool_call = NoPoolCall
    /\ iter = Nothing
    /\ iter_log = <<>>

\* let mut data_store = DataStore::new(size)?  (main.rs:52)
NewStore(size) ==
    /\ new_call.fn = "none"
    /\ \E r \in {DataStore_new(size)} :
          /\ new_call' = [fn |-> "DataStore::new", size |-> size,
                          pool_type |-> "none", result |-> r]
          /\ IF r.ok
             THEN /\ top' = r.value.top
                  /\ bottom' = r.value.bottom
                  /\ descriptions' = r.value.descriptions
                  /\ code_use' = r.value.code_use
                  /\ next_code' = r.value.next_code
             ELSE UNCHANGED <<top, bottom, descriptions, code_use, next_code>>
    /\ UNCHANGED <<offered, call, steps, assigned, pool_vars>>

\* let mut pool = RecordPool::new(bounds, pool_type)  (record_pool.rs:280, 314)
NewPool(bounds, pool_type) ==
    /\ new_call.fn = "none"
    /\ \E r \in {RecordPool_new(bounds, pool_type)} :
          /\ new_call' = [fn |-> "RecordPool::new", size |-> bounds,
                          pool_type |-> pool_type, result |-> r]
          /\ pool' = IF r.ok THEN r.value ELSE pool
    /\ UNCHANGED <<store_vars, pool_offered, pool_repeated, pool_call, iter_vars>>

\* ------------------------------------------------------------------ specifications
PoolTypes == {"Most", "Least"}

\* The store after DataStore::new(size), size >= 1.
InitStore(size) ==
    /\ StoreIs(DataStore_new(size).value)
    /\ PoolIs(Nothing)
    /\ new_call = [fn |-> "DataStore::new", size |-> size, pool_type |-> "none",
                   result |-> DataStore_new(size)]

\* The pool used on its own after RecordPool::new(bounds, pool_type), bounds >= 1.
InitOwnPool(bounds, pool_type) ==
    /\ StoreIs(NoStore)
    /\ PoolIs(RecordPool_new(bounds, pool_type).value)
    /\ new_call = [fn |-> "RecordPool::new", size |-> bounds, pool_type |-> pool_type,
                   result |-> RecordPool_new(bounds, pool_type)]

\* A DataStore of every capacity within the bounds.
Init == \E size \in Capacities : InitStore(size)

Next == \E description \in Descriptions, start_price \in Prices, new_price \in Prices :
            Record(description, start_price, new_price)

Spec == Init /\ [][Next]_vars

\* The same DataStore, with the history of its calls.
NextTraced == \E description \in Descriptions, start_price \in Prices, new_price \in Prices :
                  RecordTraced(description, start_price, new_price)

SpecTraced == Init /\ [][NextTraced]_vars

\* A RecordPool of every capacity and type, used on its own.
InitPool == \E bounds \in Capacities, pool_type \in PoolTypes : InitOwnPool(bounds, pool_type)

NextPool ==
    \/ \E difference \in Differences, code \in PoolCodes : PoolInsert(difference, code)
    \/ \E difference \in Differences : PoolFits(difference)

SpecPool == InitPool /\ [][NextPool]_vars

\* Construction with every size from 0, followed by the calls main makes on a
\* store that was made.
InitNew ==
    /\ StoreIs(NoStore)
    /\ PoolIs(Nothing)
    /\ new_call = NoNewCall

NextNew ==
    \/ \E size \in 0 .. MaxBounds : NewStore(size)
    \/ \E bounds \in 0 .. MaxBounds, pool_type \in PoolTypes : NewPool(bounds, pool_type)
    \/ \E description \in Descriptions, start_price \in Prices, new_price \in Prices :
          Record(description, start_price, new_price)

SpecNew == InitNew /\ [][NextNew]_vars

\* The program with the steps of the latest call and the codes handed out kept.
NextSteps == \E description \in Descriptions, start_price \in Prices, new_price \in Prices :
                 RecordSteps(description, start_price, new_price)
SpecSteps == Init /\ [][NextSteps]_vars

\* The same with prices one step further apart, so that three distinct
\* negative differences and a non-negative one can be recorded.
WidePrices == 0 .. (MaxPrice + 1)
NextWide == \E description \in Descriptions, start_price \in WidePrices, new_price \in WidePrices :
                RecordSteps(description, start_price, new_price)
SpecWide == Init /\ [][NextWide]_vars

\* A stand-alone pool filled by inserts, then borrowed by one iterator that
\* is advanced from either end.
NextIter ==
    \/ \E difference \in Differences, code \in PoolCodes : PoolInsertOnly(difference, code)
    \/ IterNew
    \/ IterNext
    \/ IterNextBack
SpecIter == InitPool /\ [][NextIter]_vars

\* ------------------------------------------------------------------ claim helpers
\* The differences a pool retains.
Retained(p) == DOMAIN p.records

\* The k largest elements of S (all of S when it has fewer).
RECURSIVE LargestOf(_, _)
LargestOf(S, k) ==
    IF k = 0 \/ S = {} THEN {}
    ELSE {Last(S)} \cup LargestOf(S \ {Last(S)}, k - 1)

\* The k smallest elements of S (all of S when it has fewer).
RECURSIVE SmallestOf(_, _)
SmallestOf(S, k) ==
    IF k = 0 \/ S = {} THEN {}
    ELSE {First(S)} \cup SmallestOf(S \ {First(S)}, k - 1)

\* The sum of the values of a map to numbers.
RECURSIVE SumOf(_)
SumOf(m) ==
    IF DOMAIN m = {} THEN 0
    ELSE LET k == CHOOSE x \in DOMAIN m : TRUE IN m[k] + SumOf(MapRemove(m, k))

\* The codes carried by the entries of the two pools.
EntryCodes == {top.records[d] : d \in Retained(top)} \cup
              {bottom.records[d] : d \in Retained(bottom)}

\* The codes the registry knows, in either map.
RegistryCodes == {p[2] : p \in descriptions} \cup DOMAIN code_use

\* ------------------------------------------------------------------ claims
\* C1: after every DataStore::insert call, for every capacity N >= 1, the top
\* pool and the bottom pool each hold at most N entries.
C1_PoolsWithinCapacity ==
    /\ records_len(top) <= top.bounds
    /\ records_len(bottom) <= bottom.bounds

\* C1 witness: both pools are full, the top pool after evicting into the bottom pool.
C1_Witness ==
    /\ top.bounds >= 2
    /\ records_len(top) = top.bounds
    /\ records_len(bottom) = bottom.bounds
    /\ top.smallest # 0

\* C2 (as claimed): the top pool holds the N largest distinct differences
\* recorded so far: no recorded difference outside the top pool is greater than
\* the smallest one in it, and fewer than N recorded differences are all in it.
C2_TopHoldsLargest ==
    /\ \A d \in offered \ Retained(top) :
          Retained(top) # {} /\ ~(d > First(Retained(top)))
    /\ Cardinality(offered) < top.bounds => offered \subseteq Retained(top)

\* C3 (as claimed): with M distinct differences recorded, the bottom pool holds
\* exactly the min(M, N) smallest of them.
C3_BottomHoldsSmallest ==
    Retained(bottom) = SmallestOf(offered, bottom.bounds)

\* C4 (as claimed): a pool of capacity K used through insert alone, given
\* pairwise distinct differences, retains exactly the K largest (Most) or the K
\* smallest (Least) of them, or all of them when fewer than K were given.
C4_PoolHoldsExtremes ==
    ~pool_repeated =>
        Retained(pool) = IF pool.pool_type = "Most"
                         THEN LargestOf(pool_offered, pool.bounds)
                         ELSE SmallestOf(pool_offered, pool.bounds)

\* C5 (as claimed): the sum of the use counts of all codes equals the number of
\* entries of the top pool plus the number of entries of the bottom pool.
C5_UseCountsMatchEntries ==
    SumOf(code_use) = records_len(top) + records_len(bottom)

\* C6 (as claimed): after every DataStore::insert call every code of the
\* registry is the code of at least one entry of the top or the bottom pool.
C6_NoUnreferencedDescription ==
    RegistryCodes \subseteq EntryCodes

\* C7 (as claimed): once a call has left its difference retained in a pool, the
\* same call again (same description, start and end price) changes neither
\* pool's size nor any use count.
C7_RecordIdempotent ==
    [][(/\ call # None
        /\ call' = call
        /\ (call[3] - call[2]) \in Retained(top) \cup Retained(bottom))
       => (/\ records_len(top') = records_len(top)
           /\ records_len(bottom') = records_len(bottom)
           /\ code_use' = code_use)]_vars

\* C8: the description map is a bijection between descriptions and codes, and
\* a code is in the description map exactly when it is in code_use, where its
\* count is at least 1.
C8_RegistryConsistent ==
    /\ \A p \in descriptions : \A q \in descriptions :
          (p[1] = q[1] \/ p[2] = q[2]) => p = q
    /\ {p[2] : p \in descriptions} = DOMAIN code_use
    /\ \A c \in DOMAIN code_use : code_use[c] >= 1

\* C8 witness: a code was released and its description removed, while another
\* description is held with a count of 2.
C8_Witness ==
    /\ next_code > Cardinality(descriptions)
    /\ \E c \in DOMAIN code_use : code_use[c] = 2

\* The outcome of fits as the claim states it.
FitsAsClaimed(p, value) ==
    \/ Cardinality(DOMAIN p.records) < p.bounds
    \/ /\ p.pool_type = "Most"
       /\ (value > p.largest \/ (p.smallest <= value /\ value <= p.largest))
    \/ /\ p.pool_type = "Least"
       /\ (value < p.smallest \/ (p.smallest <= value /\ value <= p.largest))

\* C9: fits(value) is true when the pool is below capacity; otherwise, for a
\* Most pool, exactly when value > largest or smallest <= value <= largest, and
\* for a Least pool exactly when value < smallest or smallest <= value <= largest;
\* the pool is the same after the call.
C9_FitsContract ==
    pool_call.op = "fits" =>
        /\ pool_call.result = FitsAsClaimed(pool_call.before, pool_call.difference)
        /\ pool = pool_call.before

\* C9 witness: fits answered true on a full pool for a value within the cached range.
C9_Witness ==
    /\ pool_call.op = "fits"
    /\ records_len(pool) = pool.bounds
    /\ pool.smallest < pool.largest
    /\ pool.smallest <= pool_call.difference
    /\ pool_call.difference <= pool.largest
    /\ pool_call.result = TRUE

\* C10 (as claimed): in any pool state, inserting a retained difference with a
\* different code replaces the code, keeps the retained differences and
\* returns none.
C10_InsertReplacesCode ==
    (/\ pool_call.op = "insert"
     /\ pool_call.difference \in Retained(pool_call.before)
     /\ pool_call.before.records[pool_call.difference] # pool_call.code)
    => (/\ pool_call.difference \in Retained(pool)
        /\ pool.records[pool_call.difference] = pool_call.code
        /\ Retained(pool) = Retained(pool_call.before)
        /\ pool_call.result = None)

\* C11: when insert adds a new difference to a pool that already holds
\* `bounds` entries, exactly one entry is removed: of the old entries and the
\* new one, the smallest for a Most pool and the largest for a Least pool;
\* insert returns that entry, the pool holds `bounds` entries again, and
\* smallest/largest are the minimum and maximum of what remains.
C11_EvictsTheWorst ==
    (/\ pool_call.op = "insert"
     /\ Cardinality(Retained(pool_call.before)) = pool_call.before.bounds
     /\ pool_call.difference \notin Retained(pool_call.before)
     /\ FitsAsClaimed(pool_call.before, pool_call.difference))
    => LET old == pool_call.before.records
           all == Retained(pool_call.before) \cup {pool_call.difference}
           code_of(d) == IF d = pool_call.difference THEN pool_call.code ELSE old[d]
           worst == IF pool.pool_type = "Most"
                    THEN CHOOSE d \in all : \A x \in all : d <= x
                    ELSE CHOOSE d \in all : \A x \in all : x <= d
       IN /\ pool_call.result = <<worst, code_of(worst)>>
          /\ Retained(pool) = all \ {worst}
          /\ \A d \in Retained(pool) : pool.records[d] = code_of(d)
          /\ Cardinality(Retained(pool)) = pool.bounds
          /\ \A d \in Retained(pool) : pool.smallest <= d /\ d <= pool.largest
          /\ pool.smallest \in Retained(pool)
          /\ pool.largest \in Retained(pool)

\* C11 witness: a full Least pool of two entries took a new smallest difference
\* and returned the entry it evicted.
C11_Witness ==
    /\ pool_call.op = "insert"
    /\ pool.pool_type = "Least"
    /\ pool.bounds = 2
    /\ Cardinality(Retained(pool_call.before)) = 2
    /\ pool_call.difference \in Retained(pool)
    /\ pool_call.difference \notin Retained(pool_call.before)
    /\ pool_call.result # None

\* C15 (as claimed): whenever a pool holds `bounds` entries, smallest is the
\* minimum retained difference and largest the maximum, also right after the
\* insert that fills the pool without evicting.
C15_CachedBoundsConsistent ==
    Cardinality(Retained(pool)) = pool.bounds =>
        /\ pool.smallest = First(Retained(pool))
        /\ pool.largest = Last(Retained(pool))

\* C13: RecordPool::new(0, _) and DataStore::new(0) return an error and
\* produce no pool and no store; with a capacity >= 1 they succeed, the store
\* with two empty pools of that capacity, an empty registry and next_code = 0.
C13_ConstructionChecksCapacity ==
    /\ new_call.fn = "DataStore::new" =>
          IF new_call.size = 0
          THEN /\ ~new_call.result.ok
               /\ Store = NoStore
          ELSE /\ new_call.result.ok
               /\ new_call.result.value.top.records = EmptyMap
               /\ new_call.result.value.top.bounds = new_call.size
               /\ new_call.result.value.top.pool_type = "Most"
               /\ new_call.result.value.bottom.records = EmptyMap
               /\ new_call.result.value.bottom.bounds = new_call.size
               /\ new_call.result.value.bottom.pool_type = "Least"
               /\ new_call.result.value.descriptions = {}
               /\ new_call.result.value.code_use = EmptyMap
               /\ new_call.result.value.next_code = 0
    /\ new_call.fn = "RecordPool::new" =>
          IF new_call.size = 0
          THEN /\ ~new_call.result.ok
               /\ pool = Nothing
          ELSE /\ new_call.result.ok
               /\ new_call.result.value.records = EmptyMap
               /\ new_call.result.value.bounds = new_call.size
               /\ new_call.result.value.pool_type = new_call.pool_type

\* C13 witness: DataStore::new(0) was called and returned an error.
C13_Witness ==
    /\ new_call.fn = "DataStore::new"
    /\ new_call.size = 0
    /\ ~new_call.result.ok

\* The retained entries of p as <<difference, code>> pairs in ascending order
\* of difference.
RECURSIVE AscendingEntries(_, _)
AscendingEntries(p, S) ==
    IF S = {} THEN <<>>
    ELSE LET least == CHOOSE d \in S : \A e \in S : d <= e
         IN <<(<<least, p.records[least]>>)>> \o AscendingEntries(p, S \ {least})

\* All calls in the log went the one direction op.
Only(op) == \A i \in 1 .. Len(iter_log) : iter_log[i].op = op

\* In the current state the log of a one-directional traversal is the ascending
\* (forward) or descending (reverse) list of retained entries followed by
\* nothing, and the iterator's keys are the pool's keys.
IterationInOrder ==
    iter # Nothing =>
        LET entries == AscendingEntries(pool, Retained(pool))
            n == Len(entries)
        IN /\ n = Cardinality(Retained(pool))
           /\ \A i \in 1 .. (n - 1) : entries[i][1] < entries[i + 1][1]
           /\ Only("next") =>
                  \A i \in 1 .. Len(iter_log) :
                      iter_log[i].item = IF i <= n THEN entries[i] ELSE None
           /\ Only("next_back") =>
                  \A i \in 1 .. Len(iter_log) :
                      iter_log[i].item = IF i <= n THEN entries[n + 1 - i] ELSE None
           /\ Len(iter.keys) = n /\ \A i \in 1 .. n : iter.keys[i] = entries[i][1]

\* C12: a fresh iterator consumed only forward yields the retained entries
\* once each in strictly ascending order of difference and then ends; consumed
\* only in reverse it yields them once each in strictly descending order and
\* then ends; an empty pool yields nothing either way; and no iterator call
\* changes the pool.
C12_IterationOrder ==
    /\ []IterationInOrder
    /\ [][iter_log' # iter_log => pool' = pool]_vars

\* A full pool of two entries was traversed in reverse to its end and past it.
C12_Witness ==
    /\ iter # Nothing
    /\ Cardinality(Retained(pool)) = 2
    /\ Len(iter_log) = 3
    /\ Only("next_back")
    /\ iter_log[3].item = None

\* The latest call went into a pool, so it interned its description.
Interned == steps.path \in {"top", "bottom"}

\* C14: the code that interning a description returns is resolved back to that
\* description by get_description_for_code, at once and in every later state
\* in which the code's use count is still at least one.
C14_RegistryRoundTrip ==
    /\ Interned =>
           get_description_for_code([descriptions |-> steps.named], steps.code)
               = Some(steps.description)
    /\ \A p \in assigned :
           (p[2] \in DOMAIN code_use /\ code_use[p[2]] >= 1) =>
               get_description_for_code(Store, p[2]) = Some(p[1])

\* C14 witness: one code handed out earlier was released since, another one is
\* shared by two uses, and the latest call reused an existing code.
C14_Witness ==
    /\ Interned /\ ~steps.fresh
    /\ \E p \in assigned : p[2] \notin DOMAIN code_use
    /\ \E p \in assigned : p[2] \in DOMAIN code_use /\ code_use[p[2]] >= 2

\* The code c was released once since the registry held the counts `counted`:
\* its count is one less, and it is gone from both maps exactly when that
\* count is zero.
ReleasedSince(counted, named, c) ==
    /\ c \in DOMAIN counted
    /\ IF counted[c] - 1 >= 1
       THEN /\ c \in DOMAIN code_use /\ code_use[c] = counted[c] - 1
            /\ \E p \in descriptions : p[2] = c
            /\ \A p \in named : p[2] = c => p \in descriptions
       ELSE /\ c \notin DOMAIN code_use
            /\ ~\E p \in descriptions : p[2] = c

\* C16 (as claimed): when the entry evicted from one pool is inserted into the
\* opposite pool and that insert evicts an entry in turn, the code of the
\* further-evicted entry is released: its use count is one less than before,
\* and its description is removed when the count reaches zero.
C16_FurtherEvictionReleased ==
    (Interned /\ steps.transfer /\ steps.second # None) =>
        ReleasedSince(steps.counted, steps.named, steps.second[2])

\* C17 (as claimed): an entry evicted from the bottom pool by a call never fits
\* the top pool.
C17_BottomEvictionNeverFitsTop ==
    (steps.path = "bottom" /\ steps.evicted # None) => ~steps.transfer

\* C18: a call whose difference fits neither pool changes nothing: the pools
\* with their cached bounds, both registry maps and next_code are as before,
\* and no code is handed out.
C18_NeitherFitsChangesNothing ==
    [][steps'.path = "neither" =>
          /\ top' = top /\ bottom' = bottom
          /\ descriptions' = descriptions /\ code_use' = code_use
          /\ next_code' = next_code
          /\ assigned' = assigned]_vars

\* C18 witness: the latest call fitted neither pool, after a call had
\* interned the second description.
C18_Witness ==
    /\ steps.path = "neither"
    /\ next_code >= 2
    /\ records_len(top) = top.bounds /\ records_len(bottom) = bottom.bounds

\* The latest call evicted an entry that the opposite pool did not fit.
EvictedAndDropped == Interned /\ steps.evicted # None /\ ~steps.transfer

\* C19 (as claimed): when a call evicts (d2, c2) and the opposite pool does not
\* fit d2, the use count of c2 after the call is one less than before the
\* call, and c2 is gone from both maps exactly when that leaves zero.
C19_CountDropsOverCall ==
    [][(steps'.path \in {"top", "bottom"} /\ steps'.evicted # None /\ ~steps'.transfer) =>
          LET c2 == steps'.evicted[2] IN
          /\ c2 \in DOMAIN steps'.counted
          /\ LET before == IF c2 \in DOMAIN code_use THEN code_use[c2] ELSE 0 IN
             IF before - 1 >= 1
             THEN c2 \in DOMAIN code_use' /\ code_use'[c2] = before - 1
             ELSE c2 \notin DOMAIN code_use']_vars

\* C19 (amended): when a call evicts (d2, c2) and the opposite pool does not
\* fit d2, the use count of c2 ends one less than it was after the call
\* interned its own description (so it is unchanged over the whole call when
\* the call's description is the one c2 stands for); the description of c2
\* stays while the count is at least one and is removed from both maps exactly
\* when the count reaches zero.
C19_ReleaseDropsCount ==
    EvictedAndDropped => ReleasedSince(steps.counted, steps.named, steps.evicted[2])

\* C19 witness: a description shared by two uses lost one of them to an
\* eviction and stays in the registry.
C19_Witness ==
    /\ EvictedAndDropped
    /\ steps.counted[steps.evicted[2]] = 2
    /\ steps.evicted[2] # steps.code
    /\ \E p \in descriptions : p[2] = steps.evicted[2]

\* Every code in the registry or in a pool entry is below next_code.
CodesBelowNext ==
    \A c \in RegistryCodes \cup EntryCodes : c < next_code

\* C20: codes are never reused: next_code never decreases, every code in the
\* registry or in a pool entry is below next_code, and the code given to a
\* newly interned description differs from every code handed out before,
\* released ones included.
C20_CodesNeverReused ==
    /\ []CodesBelowNext
    /\ [][/\ next_code' >= next_code
          /\ (steps'.path \in {"top", "bottom"} /\ steps'.fresh) =>
                 /\ steps'.code \notin {p[2] : p \in assigned}
                 /\ steps'.code >= next_code]_vars

\* C20 witness: a description was interned again under a new code after its
\* first code was released.
C20_Witness ==
    /\ Interned /\ steps.fresh
    /\ \E p \in assigned :
           /\ p[1] = steps.description
           /\ p[2] # steps.code
           /\ p[2] \notin DOMAIN code_use

\* C21: no dangling codes: every entry retained in the top or bottom pool
\* carries a code that get_description_for_code resolves to a description, so
\* record_string returns a line for every retained entry.
C21_NoDanglingCodes ==
    \A c \in EntryCodes : get_description_for_code(Store, c) # None

\* C21 witness: both pools hold entries, under two different codes, and a code
\* handed out earlier has been released.
C21_Witness ==
    /\ Retained(top) # {} /\ Retained(bottom) # {}
    /\ Cardinality(EntryCodes) = 2
    /\ \E c \in 0 .. (next_code - 1) : c \notin DOMAIN code_use

\* The number of entries of the two pools that carry the code c.
EntriesWith(c) ==
    Cardinality({d \in Retained(top) : top.records[d] = c}) +
    Cardinality({d \in Retained(bottom) : bottom.records[d] = c})

\* C22: use counts never under-count: for every code, the use count (zero for
\* a code the registry does not know) is at least the number of pool entries
\* that carry the code; and every count kept is at least one, so the decrement
\* of cleanup_descriptions never goes below zero.
C22_CountsNeverUnderCount ==
    /\ \A c \in EntryCodes \cup RegistryCodes :
           (IF c \in DOMAIN code_use THEN code_use[c] ELSE 0) >= EntriesWith(c)
    /\ \A c \in DOMAIN code_use : code_use[c] >= 1

\* C22 witness: one code is carried by two entries and counted exactly twice,
\* after another code was released.
C22_Witness ==
    /\ \E c \in DOMAIN code_use : EntriesWith(c) = 2 /\ code_use[c] = 2
    /\ \E c \in 0 .. (next_code - 1) : c \notin DOMAIN code_use

\* C23: the top pool fills first: whenever the bottom pool holds an entry the
\* top pool holds exactly N entries, and while fewer than N distinct
\* differences have been recorded the bottom pool is empty.
C23_TopFillsFirst ==
    /\ Retained(bottom) # {} => records_len(top) = top.bounds
    /\ Cardinality(offered) < top.bounds => Retained(bottom) = {}

\* C23 witness: with capacity two, at least two distinct differences were
\* recorded, the top pool is full and the bottom pool holds an entry.
C23_Witness ==
    /\ top.bounds = 2
    /\ Cardinality(offered) >= 2
    /\ records_len(top) = 2
    /\ Retained(bottom) # {}

\* The items the calls on the iterator have yielded so far, in call order.
Yielded == SelectSeq(iter_log, LAMBDA c : c.item # None)

\* C24 (as claimed): for any interleaving of next and next_back calls on one
\* iterator, every retained entry is yielded at most once, so that no more
\* items are yielded than the pool holds entries, and once that many items
\* were yielded every further call returns nothing.
C24_CursorsNeverCross ==
    iter # Nothing =>
        /\ \A i, j \in 1 .. Len(Yielded) : i # j => Yielded[i].item # Yielded[j].item
        /\ Len(Yielded) <= Cardinality(Retained(pool))

====
